---- MODULE Spec2Model ----
(***************************************************************************)
(* siasync: a SiaFolder keeps a directory synchronised with a Sia node.    *)
(* The model follows src/siafolder.go: NewSiafolder (baseline sync), the   *)
(* eventWatcher goroutine with handleFileWrite / handleRemove /            *)
(* handleCreate, and Close.  The directory tree, the fsnotify watcher and  *)
(* the Sia node (apiClient) are the environment.                           *)
(***************************************************************************)
EXTENDS Integers, Sequences, FiniteSets, TLC

(***************************************************************************)
(* Bounds of the model.                                                    *)
(***************************************************************************)
\* number of filesystem operations the environment performs after startup
MaxFsOps == 2
\* number of distinct file contents
NumContents == 2

(***************************************************************************)
(* Paths.  A path is a sequence of components; an absolute path starts     *)
(* with the component "/".                                                 *)
(***************************************************************************)
\* the working directory of the process
Cwd == <<"/", "w">>
\* the `path` argument of NewSiafolder (testDir in siafolder_test.go)
PathArg == <<"t">>

IsAbs(p) == Len(p) > 0 /\ p[1] = "/"

\* filepath.Abs: an absolute path is returned as it is, a relative one is
\* joined to the working directory
Abs(p) == IF IsAbs(p) THEN p ELSE Cwd \o p

\* filepath.Clean on the names fsnotify delivers: the empty name becomes "."
Clean(p) == IF p = << >> THEN <<".">> ELSE p

\* length of the longest common prefix of two paths
RECURSIVE CommonLen(_, _)
CommonLen(p, q) ==
    IF p = << >> \/ q = << >> \/ Head(p) # Head(q) THEN 0
    ELSE 1 + CommonLen(Tail(p), Tail(q))

\* filepath.Rel(base, targ): ".." for every component of base that is not
\* shared, then the rest of targ
Rel(base, targ) ==
    LET k == CommonLen(base, targ)
    IN  [i \in 1..(Len(base) - k) |-> ".."] \o SubSeq(targ, k + 1, Len(targ))

Parent(p) == SubSeq(p, 1, Len(p) - 1)

\* sf.path
Root == Abs(PathArg)

\* the names that can exist under the root, relative to it
RelFiles == {<<"a">>, <<"d", "c">>}
RelDirs == {<<"d">>, <<"d", "e">>}

FilePaths == {Root \o r : r \in RelFiles}
DirPaths == {Root \o r : r \in RelDirs}
AllPaths == FilePaths \cup DirPaths

Contents == 1..NumContents

\* sha256 of a content: an injective tag of the bytes
Sha256(c) == <<"sha256", c>>

\* the zero value of fsnotify.Event, received from a closed Events channel
ZeroEvent == [name |-> << >>, op |-> {}]

VARIABLES
    disk,        \* the directory tree: path -> 0 (absent), 1 (a directory), or a file's content
    contracts,   \* number of contracts the Sia node reports
    siaFiles,    \* the Sia node's files: relative path -> checksum of the uploaded content
    calls,       \* the Post calls issued so far, in order
    sfpc,        \* position of NewSiafolder
    renterFiles, \* the SiaPaths returned by Get("/renter/files")
    todo,        \* keys of sf.files the loop of uploadNonExisting has not visited yet
    files,       \* sf.files: absolute path -> checksum
    watcher,     \* "none", "open" or "closed"
    watched,     \* the directories the watcher is subscribed to
    events,      \* the events the watcher has not delivered yet
    closeChan,   \* TRUE once closeChan is closed
    closepc,     \* position of Close
    cpc,         \* position of eventWatcher
    cur,         \* the event eventWatcher is handling
    touched,     \* uses of the watcher by eventWatcher after watcher.Close()
    fsLog        \* the filesystem operations performed after startup, in order

vars == <<disk, contracts, siaFiles, calls, sfpc, renterFiles, todo, files,
          watcher, watched, events, closeChan, closepc, cpc, cur, touched, fsLog>>

Exists(p) == p = Root \/ (p \in AllPaths /\ disk[p] # 0)

\* os.Stat(p) succeeds and reports a directory; "." is the working directory
StatIsDir(p) == p = <<".">> \/ p = Root \/ (p \in DirPaths /\ disk[p] # 0)

IsFile(p) == p \in FilePaths /\ disk[p] # 0

\* a tree is well formed when every entry's parent directory exists
WellFormed(d) == \A p \in AllPaths : d[p] # 0 =>
                    (Parent(p) = Root \/ d[Parent(p)] # 0)

\* map helpers for sf.files and siaFiles
Put(m, k, v) == [x \in DOMAIN m \cup {k} |-> IF x = k THEN v ELSE m[x]]
Del(m, k) == [x \in DOMAIN m \ {k} |-> m[x]]
EmptyMap == [x \in {} |-> 0]

\* The state when NewSiafolder is called: any well-formed tree under the root
\* (files hold content 1; the nested directory d/e is made only after
\* startup), a Sia node with or without contracts that already holds any
\* subset of the relative paths, no watcher, nothing tracked.
Init ==
    /\ disk \in {d \in [AllPaths -> {0, 1}] :
                    WellFormed(d) /\ d[Root \o <<"d", "e">>] = 0}
    /\ contracts \in {0, 1}
    /\ siaFiles \in UNION {[S -> {Sha256(1)}] : S \in SUBSET RelFiles}
    /\ calls = << >>
    /\ sfpc = "contracts"
    /\ renterFiles = {}
    /\ todo = {}
    /\ files = EmptyMap
    /\ watcher = "none"
    /\ watched = {}
    /\ events = << >>
    /\ closeChan = FALSE
    /\ closepc = "idle"
    /\ cpc = "off"
    /\ cur = ZeroEvent
    /\ touched = {}
    /\ fsLog = << >>

(***************************************************************************)
(* The apiClient: Post("/renter/upload/<relpath>", "source=<abspath>") and *)
(* Post("/renter/delete/<relpath>").  A call is logged when it is issued;  *)
(* `ok` is its outcome.  An upload stores the checksum of the source file, *)
(* as the testing client does, and cannot succeed without a source file.   *)
(***************************************************************************)
Call(op, key, by, ok) == [op |-> op, key |-> key, by |-> by, ok |-> ok]

UploadOutcomes(abspath) == IF IsFile(abspath) THEN BOOLEAN ELSE {FALSE}

SiaAfterUpload(key, abspath, ok) ==
    IF ok THEN Put(siaFiles, key, Sha256(disk[abspath])) ELSE siaFiles

SiaAfterDelete(key, ok) == IF ok THEN Del(siaFiles, key) ELSE siaFiles

\* checksumFile(file) fails when the file cannot be opened
ChecksumOk(file) == IsFile(file)
Checksum(file) == Sha256(disk[file])

(***************************************************************************)
(* handleCreate(file): Post the upload under the path relative to sf.path; *)
(* on success checksum the file and store the checksum.                    *)
(***************************************************************************)
\* the Post of handleCreate
HandleCreatePost(file, by, ok) ==
    /\ calls' = Append(calls, Call("upload", Rel(Root, file), by, ok))
    /\ siaFiles' = SiaAfterUpload(Rel(Root, file), Abs(file), ok)

\* mutant of FilesAfterCreate: a path that has a checksum already is taken
\* for stale and dropped
FilesAfterCreateDropsTracked(file) ==
    IF ~ChecksumOk(file) THEN files
    ELSE IF file \in DOMAIN files THEN Del(files, file)
    ELSE Put(files, file, Checksum(file))

\* what handleCreate stores after a successful Post
FilesAfterCreate(file) ==
    IF ChecksumOk(file) THEN Put(files, file, Checksum(file)) ELSE files

(***************************************************************************)
(* NewSiafolder.  The tree does not change while it runs.                  *)
(***************************************************************************)
\* mutant of GetContracts: the `len(contracts.Contracts) == 0` check is left out
GetContractsNoCheck ==
    /\ sfpc = "contracts"
    /\ \E ok \in BOOLEAN :
          sfpc' = IF ok THEN "newWatcher" ELSE "failed"
    /\ UNCHANGED <<disk, contracts, siaFiles, calls, renterFiles, todo, files,
                   watcher, watched, events, closeChan, closepc, cpc, cur,
                   touched, fsLog>>

\* Get("/renter/contracts") and the check that contracts exist
GetContracts ==
    /\ sfpc = "contracts"
    /\ \E ok \in BOOLEAN :
          sfpc' = IF ok /\ contracts > 0 THEN "newWatcher" ELSE "failed"
    /\ UNCHANGED <<disk, contracts, siaFiles, calls, renterFiles, todo, files,
                   watcher, watched, events, closeChan, closepc, cpc, cur,
                   touched, fsLog>>

\* fsnotify.NewWatcher()
NewWatcher ==
    /\ sfpc = "newWatcher"
    /\ \E ok \in BOOLEAN :
          /\ watcher' = IF ok THEN "open" ELSE watcher
          /\ sfpc' = IF ok THEN "addRoot" ELSE "failed"
    /\ UNCHANGED <<disk, contracts, siaFiles, calls, renterFiles, todo, files,
                   watched, events, closeChan, closepc, cpc, cur, touched, fsLog>>

\* watcher.Add(abspath)
AddRoot ==
    /\ sfpc = "addRoot"
    /\ \E ok \in BOOLEAN :
          /\ watched' = IF ok THEN watched \cup {Root} ELSE watched
          /\ sfpc' = IF ok THEN "walk" ELSE "failed"
    /\ UNCHANGED <<disk, contracts, siaFiles, calls, renterFiles, todo, files,
                   watcher, events, closeChan, closepc, cpc, cur, touched, fsLog>>

\* the entries filepath.Walk(abspath) visits, in lexical order
WalkAll == <<Root, Root \o <<"a">>, Root \o <<"d">>, Root \o <<"d", "c">>,
            Root \o <<"d", "e">> >>
WalkOrder == SelectSeq(WalkAll, Exists)

\* the walk function applied to the first n entries: an entry equal to the
\* `path` argument is skipped, a directory is added to the watcher, a file is
\* checksummed into sf.files
WalkedDirs(n) == {WalkOrder[i] : i \in {j \in 1..n :
                    WalkOrder[j] # PathArg /\ StatIsDir(WalkOrder[j])}}
WalkedFiles(n) == {WalkOrder[i] : i \in {j \in 1..n :
                    WalkOrder[j] # PathArg /\ ~StatIsDir(WalkOrder[j])}}

\* filepath.Walk: it either visits every entry, or stops with an error at
\* entry n + 1 (lstat or checksumFile failed)
Walk ==
    /\ sfpc = "walk"
    /\ \E n \in 0..Len(WalkOrder) :
          /\ watched' = watched \cup WalkedDirs(n)
          /\ files' = [p \in WalkedFiles(n) |-> Checksum(p)]
          /\ sfpc' = IF n = Len(WalkOrder) THEN "renterFiles" ELSE "failed"
    /\ UNCHANGED <<disk, contracts, siaFiles, calls, renterFiles, todo,
                   watcher, events, closeChan, closepc, cpc, cur, touched, fsLog>>

\* uploadNonExisting: Get("/renter/files")
GetRenterFiles ==
    /\ sfpc = "renterFiles"
    /\ \E ok \in BOOLEAN :
          /\ renterFiles' = IF ok THEN DOMAIN siaFiles ELSE renterFiles
          /\ todo' = IF ok THEN DOMAIN files ELSE todo
          /\ sfpc' = IF ok THEN "loop" ELSE "failed"
    /\ UNCHANGED <<disk, contracts, siaFiles, calls, files, watcher, watched,
                   events, closeChan, closepc, cpc, cur, touched, fsLog>>

\* mutant of LoopExisting: `if exists` for `if !exists`, the file that is in
\* renterFiles is uploaded
LoopExistingInverted ==
    /\ sfpc = "loop"
    /\ \E file \in todo :
          /\ Rel(Root, file) \in renterFiles
          /\ \E ok \in UploadOutcomes(Abs(file)) :
                /\ HandleCreatePost(file, "baseline", ok)
                /\ files' = IF ok THEN FilesAfterCreate(file) ELSE files
          /\ todo' = todo \ {file}
    /\ UNCHANGED <<disk, contracts, sfpc, renterFiles, watcher, watched,
                   events, closeChan, closepc, cpc, cur, touched, fsLog>>

\* uploadNonExisting: one iteration of `for file := range sf.files` for a file
\* whose relative path is a SiaPath of renterFiles
LoopExisting ==
    /\ sfpc = "loop"
    /\ \E file \in todo :
          /\ Rel(Root, file) \in renterFiles
          /\ todo' = todo \ {file}
    /\ UNCHANGED <<disk, contracts, siaFiles, calls, sfpc, renterFiles, files,
                   watcher, watched, events, closeChan, closepc, cpc, cur,
                   touched, fsLog>>

\* mutant of LoopUpload: `if exists` for `if !exists`, the file that is not in
\* renterFiles is passed over
LoopUploadInverted ==
    /\ sfpc = "loop"
    /\ \E file \in todo :
          /\ Rel(Root, file) \notin renterFiles
          /\ todo' = todo \ {file}
    /\ UNCHANGED <<disk, contracts, siaFiles, calls, sfpc, renterFiles, files,
                   watcher, watched, events, closeChan, closepc, cpc, cur,
                   touched, fsLog>>

\* uploadNonExisting: one iteration for a file that is not in renterFiles:
\* sf.handleCreate(file), whose error is dropped
LoopUpload ==
    /\ sfpc = "loop"
    /\ \E file \in todo :
          /\ Rel(Root, file) \notin renterFiles
          /\ \E ok \in UploadOutcomes(Abs(file)) :
                /\ HandleCreatePost(file, "baseline", ok)
                /\ files' = IF ok THEN FilesAfterCreate(file) ELSE files
          /\ todo' = todo \ {file}
    /\ UNCHANGED <<disk, contracts, sfpc, renterFiles, watcher, watched,
                   events, closeChan, closepc, cpc, cur, touched, fsLog>>

\* uploadNonExisting returns nil; `go sf.eventWatcher()`; return sf, nil
StartWatcher ==
    /\ sfpc = "loop"
    /\ todo = {}
    /\ sfpc' = "done"
    /\ cpc' = "select"
    /\ UNCHANGED <<disk, contracts, siaFiles, calls, renterFiles, todo, files,
                   watcher, watched, events, closeChan, closepc, cur, touched,
                   fsLog>>

NewSiafolder ==
    \/ GetContracts
    \/ NewWatcher
    \/ AddRoot
    \/ Walk
    \/ GetRenterFiles
    \/ LoopExisting
    \/ LoopUpload
    \/ StartWatcher

(***************************************************************************)
(* The directory tree and the fsnotify watcher.  After NewSiafolder has    *)
(* returned, the environment creates, writes and removes entries.  The     *)
(* watcher queues an event named after the entry when the directory that   *)
(* holds it is subscribed.                                                 *)
(***************************************************************************)
Event(name, op) == [name |-> name, op |-> {op}]

\* the events an operation `op` on entry p appends to the watcher's queue
Notify(p, op) ==
    IF watcher = "open" /\ Parent(p) \in watched
    THEN Append(events, Event(p, op)) ELSE events

FsOp(op, p) == [op |-> op, path |-> p]

FsEnabled == sfpc = "done" /\ Len(fsLog) < MaxFsOps

\* os.Create of a new file, which is empty (content 1)
CreateFile(p) ==
    /\ FsEnabled
    /\ p \in FilePaths /\ disk[p] = 0 /\ Exists(Parent(p))
    /\ disk' = [disk EXCEPT ![p] = 1]
    /\ events' = Notify(p, "Create")
    /\ fsLog' = Append(fsLog, FsOp("create", p))
    /\ UNCHANGED <<contracts, siaFiles, calls, sfpc, renterFiles, todo, files,
                   watcher, watched, closeChan, closepc, cpc, cur, touched>>

\* a write to an existing file; the bytes may be the ones it already holds
WriteFile(p) ==
    /\ FsEnabled
    /\ IsFile(p)
    /\ \E c \in Contents : disk' = [disk EXCEPT ![p] = c]
    /\ events' = Notify(p, "Write")
    /\ fsLog' = Append(fsLog, FsOp("write", p))
    /\ UNCHANGED <<contracts, siaFiles, calls, sfpc, renterFiles, todo, files,
                   watcher, watched, closeChan, closepc, cpc, cur, touched>>

\* os.Remove of a file
RemoveFile(p) ==
    /\ FsEnabled
    /\ IsFile(p)
    /\ disk' = [disk EXCEPT ![p] = 0]
    /\ events' = Notify(p, "Remove")
    /\ fsLog' = Append(fsLog, FsOp("remove", p))
    /\ UNCHANGED <<contracts, siaFiles, calls, sfpc, renterFiles, todo, files,
                   watcher, watched, closeChan, closepc, cpc, cur, touched>>

\* os.Mkdir
Mkdir(d) ==
    /\ FsEnabled
    /\ d \in DirPaths /\ disk[d] = 0 /\ Exists(Parent(d))
    /\ disk' = [disk EXCEPT ![d] = 1]
    /\ events' = Notify(d, "Create")
    /\ fsLog' = Append(fsLog, FsOp("mkdir", d))
    /\ UNCHANGED <<contracts, siaFiles, calls, sfpc, renterFiles, todo, files,
                   watcher, watched, closeChan, closepc, cpc, cur, touched>>

\* os.Remove of an empty directory: the kernel drops the directory's own
\* watch, which reports the removal too
Rmdir(d) ==
    /\ FsEnabled
    /\ d \in DirPaths /\ disk[d] # 0
    /\ \A p \in AllPaths : Parent(p) = d => disk[p] = 0
    /\ disk' = [disk EXCEPT ![d] = 0]
    /\ events' = events
                 \o (IF watcher = "open" /\ d \in watched
                     THEN <<Event(d, "Remove")>> ELSE << >>)
                 \o (IF watcher = "open" /\ Parent(d) \in watched
                     THEN <<Event(d, "Remove")>> ELSE << >>)
    /\ watched' = watched \ {d}
    /\ fsLog' = Append(fsLog, FsOp("rmdir", d))
    /\ UNCHANGED <<contracts, siaFiles, calls, sfpc, renterFiles, todo, files,
                   watcher, closeChan, closepc, cpc, cur, touched>>

Environment ==
    \/ \E p \in FilePaths : CreateFile(p)
    \/ \E p \in FilePaths : WriteFile(p)
    \/ \E p \in FilePaths : RemoveFile(p)
    \/ \E d \in DirPaths : Mkdir(d)
    \/ \E d \in DirPaths : Rmdir(d)

(***************************************************************************)
(* eventWatcher: the select loop and the handlers it calls.  Every step    *)
(* holds one receive, one call of the apiClient or one use of the tree.    *)
(***************************************************************************)
\* filename := filepath.Clean(event.Name)
Filename == Clean(cur.name)

\* the next handler the loop body runs for an event with operations `op`,
\* after the handler `after`: Write, then Remove, then Create
NextPhase(after, op) ==
    IF after = "event" /\ "Write" \in op THEN "write"
    ELSE IF after \in {"event", "write"} /\ "Remove" \in op THEN "remove"
    ELSE IF after \in {"event", "write", "remove"} /\ "Create" \in op THEN "create"
    ELSE "select"

\* mutant of RecvClose: `break` for `return`, which leaves the select only
RecvCloseBreak ==
    /\ cpc = "select"
    /\ closeChan
    /\ UNCHANGED vars

\* case <-sf.closeChan: return
RecvClose ==
    /\ cpc = "select"
    /\ closeChan
    /\ cpc' = "done"
    /\ UNCHANGED <<disk, contracts, siaFiles, calls, sfpc, renterFiles, todo,
                   files, watcher, watched, events, closeChan, closepc, cur,
                   touched, fsLog>>

\* mutant of RecvEvent: the newest pending event is received, not the oldest
RecvEventNewest ==
    /\ cpc = "select"
    /\ watcher = "open"
    /\ events # << >>
    /\ cur' = events[Len(events)]
    /\ events' = SubSeq(events, 1, Len(events) - 1)
    /\ cpc' = "event"
    /\ UNCHANGED <<disk, contracts, siaFiles, calls, sfpc, renterFiles, todo,
                   files, watcher, watched, closeChan, closepc, touched, fsLog>>

\* case event := <-sf.watcher.Events, on the open watcher
RecvEvent ==
    /\ cpc = "select"
    /\ watcher = "open"
    /\ events # << >>
    /\ cur' = Head(events)
    /\ events' = Tail(events)
    /\ cpc' = "event"
    /\ UNCHANGED <<disk, contracts, siaFiles, calls, sfpc, renterFiles, todo,
                   files, watcher, watched, closeChan, closepc, touched, fsLog>>

\* case event := <-sf.watcher.Events, once watcher.Close() has closed the
\* channel: the receive yields the zero Event
RecvClosedEvents ==
    /\ cpc = "select"
    /\ watcher = "closed"
    /\ cur' = ZeroEvent
    /\ cpc' = "event"
    /\ touched' = touched \cup {"Events"}
    /\ UNCHANGED <<disk, contracts, siaFiles, calls, sfpc, renterFiles, todo,
                   files, watcher, watched, events, closeChan, closepc, fsLog>>

\* case err := <-sf.watcher.Errors, once watcher.Close() has closed the
\* channel: the receive yields nil, which is not logged
RecvClosedErrors ==
    /\ cpc = "select"
    /\ watcher = "closed"
    /\ touched' = touched \cup {"Errors"}
    /\ UNCHANGED <<disk, contracts, siaFiles, calls, sfpc, renterFiles, todo,
                   files, watcher, watched, events, closeChan, closepc, cpc,
                   cur, fsLog>>

\* mutant of StatEvent: the test for a directory is left out
StatEventNoDirCheck ==
    /\ cpc = "event"
    /\ cpc' = NextPhase("event", cur.op)
    /\ UNCHANGED <<disk, contracts, siaFiles, calls, sfpc, renterFiles, todo,
                   files, watcher, watched, events, closeChan, closepc, cur,
                   touched, fsLog>>

\* os.Stat(filename); a directory is added to the watcher and the loop
\* continues, anything else goes to the handlers of event.Op
StatEvent ==
    /\ cpc = "event"
    /\ IF StatIsDir(Filename)
       THEN /\ cpc' = "select"
            /\ watched' = IF watcher = "open" THEN watched \cup {Filename}
                          ELSE watched
            /\ touched' = IF watcher = "closed" THEN touched \cup {"Add"}
                          ELSE touched
       ELSE /\ cpc' = NextPhase("event", cur.op)
            /\ UNCHANGED <<watched, touched>>
    /\ UNCHANGED <<disk, contracts, siaFiles, calls, sfpc, renterFiles, todo,
                   files, watcher, events, closeChan, closepc, cur, fsLog>>

\* mutant of HandleFileWrite: `if exists` without the comparison of checksums
HandleFileWriteNoCompare ==
    /\ cpc = "write"
    /\ IF ChecksumOk(Filename) /\ Filename \in DOMAIN files
       THEN /\ files' = Put(files, Filename, Checksum(Filename))
            /\ cpc' = "writeRemove"
       ELSE /\ cpc' = NextPhase("write", cur.op)
            /\ UNCHANGED files
    /\ UNCHANGED <<disk, contracts, siaFiles, calls, sfpc, renterFiles, todo,
                   watcher, watched, events, closeChan, closepc, cur, touched,
                   fsLog>>

\* handleFileWrite up to its first call: checksum the file; when the path has
\* a checksum and it differs, store the new one and go on to handleRemove
HandleFileWrite ==
    /\ cpc = "write"
    /\ IF /\ ChecksumOk(Filename)
          /\ Filename \in DOMAIN files
          /\ files[Filename] # Checksum(Filename)
       THEN /\ files' = Put(files, Filename, Checksum(Filename))
            /\ cpc' = "writeRemove"
       ELSE /\ cpc' = NextPhase("write", cur.op)
            /\ UNCHANGED files
    /\ UNCHANGED <<disk, contracts, siaFiles, calls, sfpc, renterFiles, todo,
                   watcher, watched, events, closeChan, closepc, cur, touched,
                   fsLog>>

\* mutant of HandleRemovePost: the delete(sf.files, file) is left out
HandleRemoveKeepsEntry(file, by, ok) ==
    /\ calls' = Append(calls, Call("delete", Rel(Root, file), by, ok))
    /\ siaFiles' = SiaAfterDelete(Rel(Root, file), ok)
    /\ files' = files

\* mutant of HandleRemovePost: the Rel is left out, the delete names the
\* absolute path
HandleRemoveAbsKey(file, by, ok) ==
    /\ calls' = Append(calls, Call("delete", file, by, ok))
    /\ siaFiles' = SiaAfterDelete(file, ok)
    /\ files' = IF ok THEN Del(files, file) ELSE files

\* handleRemove(file): Post the delete; on success drop the checksum
HandleRemovePost(file, by, ok) ==
    /\ calls' = Append(calls, Call("delete", Rel(Root, file), by, ok))
    /\ siaFiles' = SiaAfterDelete(Rel(Root, file), ok)
    /\ files' = IF ok THEN Del(files, file) ELSE files

\* mutant of WriteRemove: the error of handleRemove is not returned
WriteRemoveIgnoresError ==
    /\ cpc = "writeRemove"
    /\ \E ok \in BOOLEAN : HandleRemovePost(Filename, "write", ok)
    /\ cpc' = "writeCreate"
    /\ UNCHANGED <<disk, contracts, sfpc, renterFiles, todo, watcher, watched,
                   events, closeChan, closepc, cur, touched, fsLog>>

\* handleFileWrite: err = sf.handleRemove(file)
WriteRemove ==
    /\ cpc = "writeRemove"
    /\ \E ok \in BOOLEAN :
          /\ HandleRemovePost(Filename, "write", ok)
          /\ cpc' = IF ok THEN "writeCreate" ELSE NextPhase("write", cur.op)
    /\ UNCHANGED <<disk, contracts, sfpc, renterFiles, todo, watcher, watched,
                   events, closeChan, closepc, cur, touched, fsLog>>

\* handleFileWrite: err = sf.handleCreate(file), the Post
WriteCreate ==
    /\ cpc = "writeCreate"
    /\ \E ok \in UploadOutcomes(Abs(Filename)) :
          /\ HandleCreatePost(Filename, "write", ok)
          /\ cpc' = IF ok THEN "writeSum" ELSE NextPhase("write", cur.op)
    /\ UNCHANGED <<disk, contracts, sfpc, renterFiles, todo, files, watcher,
                   watched, events, closeChan, closepc, cur, touched, fsLog>>

\* handleFileWrite: the checksum handleCreate stores after its Post
WriteSum ==
    /\ cpc = "writeSum"
    /\ files' = FilesAfterCreate(Filename)
    /\ cpc' = NextPhase("write", cur.op)
    /\ UNCHANGED <<disk, contracts, siaFiles, calls, sfpc, renterFiles, todo,
                   watcher, watched, events, closeChan, closepc, cur, touched,
                   fsLog>>

\* mutant of RemoveEvent: the error of handleRemove ends the loop
RemoveEventFatal ==
    /\ cpc = "remove"
    /\ \E ok \in BOOLEAN :
          /\ HandleRemovePost(Filename, "remove", ok)
          /\ cpc' = IF ok THEN NextPhase("remove", cur.op) ELSE "done"
    /\ UNCHANGED <<disk, contracts, sfpc, renterFiles, todo, watcher, watched,
                   events, closeChan, closepc, cur, touched, fsLog>>

\* REMOVE event: err = sf.handleRemove(filename)
RemoveEvent ==
    /\ cpc = "remove"
    /\ \E ok \in BOOLEAN : HandleRemovePost(Filename, "remove", ok)
    /\ cpc' = NextPhase("remove", cur.op)
    /\ UNCHANGED <<disk, contracts, sfpc, renterFiles, todo, watcher, watched,
                   events, closeChan, closepc, cur, touched, fsLog>>

\* mutant of CreateEvent: the error of the Post is not returned, handleCreate
\* goes on to store the checksum
CreateEventStoresOnError ==
    /\ cpc = "create"
    /\ \E ok \in UploadOutcomes(Abs(Filename)) :
          HandleCreatePost(Filename, "create", ok)
    /\ cpc' = "createSum"
    /\ UNCHANGED <<disk, contracts, sfpc, renterFiles, todo, files, watcher,
                   watched, events, closeChan, closepc, cur, touched, fsLog>>

\* CREATE event: err = sf.handleCreate(filename), the Post
CreateEvent ==
    /\ cpc = "create"
    /\ \E ok \in UploadOutcomes(Abs(Filename)) :
          /\ HandleCreatePost(Filename, "create", ok)
          /\ cpc' = IF ok THEN "createSum" ELSE "select"
    /\ UNCHANGED <<disk, contracts, sfpc, renterFiles, todo, files, watcher,
                   watched, events, closeChan, closepc, cur, touched, fsLog>>

\* CREATE event: the checksum handleCreate stores after its Post
CreateSum ==
    /\ cpc = "createSum"
    /\ files' = FilesAfterCreate(Filename)
    /\ cpc' = "select"
    /\ UNCHANGED <<disk, contracts, siaFiles, calls, sfpc, renterFiles, todo,
                   watcher, watched, events, closeChan, closepc, cur, touched,
                   fsLog>>

eventWatcher ==
    \/ RecvClose
    \/ RecvEvent
    \/ RecvClosedEvents
    \/ RecvClosedErrors
    \/ StatEvent
    \/ HandleFileWrite
    \/ WriteRemove
    \/ WriteCreate
    \/ WriteSum
    \/ RemoveEvent
    \/ CreateEvent
    \/ CreateSum

(***************************************************************************)
(* Close: close(sf.closeChan), then sf.watcher.Close(), which drops the    *)
(* subscriptions and the undelivered events and closes both channels.      *)
(***************************************************************************)
CloseChan ==
    /\ sfpc = "done"
    /\ closepc = "idle"
    /\ closeChan' = TRUE
    /\ closepc' = "watcherClose"
    /\ UNCHANGED <<disk, contracts, siaFiles, calls, sfpc, renterFiles, todo,
                   files, watcher, watched, events, cpc, cur, touched, fsLog>>

WatcherClose ==
    /\ closepc = "watcherClose"
    /\ watcher' = "closed"
    /\ watched' = {}
    /\ events' = << >>
    /\ closepc' = "returned"
    /\ UNCHANGED <<disk, contracts, siaFiles, calls, sfpc, renterFiles, todo,
                   files, closeChan, cpc, cur, touched, fsLog>>

Close ==
    \/ CloseChan
    \/ WatcherClose

Next ==
    \/ NewSiafolder
    \/ Environment
    \/ eventWatcher
    \/ Close

Spec == Init /\ [][Next]_vars

(***************************************************************************)
(* A caller that calls Close a second time, after the first call returned. *)
(* Close has no flag to look at: it runs close(sf.closeChan) again, and    *)
(* close of a closed channel panics, which ends the process and with it    *)
(* the goroutine of eventWatcher.                                          *)
(***************************************************************************)
CloseAgain ==
    /\ closepc = "returned"
    /\ closeChan
    /\ closepc' = "panicked"
    /\ cpc' = "crashed"
    /\ UNCHANGED <<disk, contracts, siaFiles, calls, sfpc, renterFiles, todo,
                   files, watcher, watched, events, closeChan, cur, touched,
                   fsLog>>

NextCloseTwice ==
    \/ Next
    \/ CloseAgain

SpecCloseTwice == Init /\ [][NextCloseTwice]_vars

(***************************************************************************)
(* Fairness: the goroutine of eventWatcher keeps running while it can take *)
(* a step, and select picks among its ready cases at random, so a case     *)
(* that is ready again and again is taken.                                 *)
(***************************************************************************)
LiveInit ==
    /\ Init
    /\ contracts = 1
    /\ disk[Root \o <<"a">>] = 1
    /\ siaFiles = [r \in {<<"a">>} |-> Sha256(1)]

FairSpec ==
    /\ LiveInit
    /\ [][Next]_vars
    /\ WF_vars(eventWatcher)
    /\ SF_vars(RecvClose)

(***************************************************************************)
(* A second CREATE event for a file that exists: os.Rename of a file from  *)
(* outside the tree onto it, which the watcher reports as a Create of the  *)
(* name.  The bytes moved in may be the ones the file already held.        *)
(***************************************************************************)
RenameOver(p) ==
    /\ FsEnabled
    /\ IsFile(p)
    /\ \E c \in Contents : disk' = [disk EXCEPT ![p] = c]
    /\ events' = Notify(p, "Create")
    /\ fsLog' = Append(fsLog, FsOp("rename", p))
    /\ UNCHANGED <<contracts, siaFiles, calls, sfpc, renterFiles, todo, files,
                   watcher, watched, closeChan, closepc, cpc, cur, touched>>

NextRenameOver ==
    \/ Next
    \/ \E p \in FilePaths : RenameOver(p)

SpecRenameOver == LiveInit /\ [][NextRenameOver]_vars

(***************************************************************************)
(* Vocabulary of the properties.                                           *)
(***************************************************************************)
\* the indices of the calls `op` issued for the relative path `key`
CallsOf(log, op, key) == {i \in 1..Len(log) : log[i].op = op /\ log[i].key = key}
NumCalls(log, op, key) == Cardinality(CallsOf(log, op, key))
CallsBy(log, op, key, by) == {i \in CallsOf(log, op, key) : log[i].by = by}

\* `go sf.eventWatcher()` is executed in this step
ConsumerStarts == cpc = "off" /\ cpc' # "off"

\* C1: baseline sync: when the event consumer is started, exactly one upload
\* call has been issued for every file of the tree whose relative path is not
\* in the inventory returned by /renter/files
C1_BaselineUploadsOnce ==
    [][ConsumerStarts =>
          \A r \in RelFiles :
             (IsFile(Root \o r) /\ r \notin renterFiles)
                => NumCalls(calls, "upload", r) = 1]_vars

C1_Witness ==
    /\ sfpc = "done"
    /\ fsLog = << >>
    /\ \E r \in RelFiles :
          /\ IsFile(Root \o r) /\ r \notin renterFiles
          /\ NumCalls(calls, "upload", r) = 1

\* C2: baseline sync: when NewSiafolder returns, no upload call has been
\* issued for a file whose relative path is in the inventory, and sf.files
\* holds the checksum of that file
C2_ExistingNotUploaded ==
    [][ConsumerStarts =>
          \A r \in RelFiles :
             (IsFile(Root \o r) /\ r \in renterFiles)
                => /\ NumCalls(calls, "upload", r) = 0
                   /\ Root \o r \in DOMAIN files'
                   /\ files'[Root \o r] = Sha256(disk[Root \o r])]_vars

C2_Witness ==
    /\ sfpc = "done"
    /\ fsLog = << >>
    /\ \E r \in RelFiles :
          /\ IsFile(Root \o r) /\ r \in renterFiles
          /\ NumCalls(calls, "upload", r) = 0
          /\ Root \o r \in DOMAIN files

\* C3: whenever NewSiafolder has returned successfully, every file of the
\* tree at startup is on the Sia node under its relative path, whatever the
\* outcome of the baseline upload calls
C3_BaselineEnsuresRemote ==
    (sfpc = "done" /\ fsLog = << >>)
       => \A r \in RelFiles : IsFile(Root \o r) => r \in DOMAIN siaFiles

\* the loop of eventWatcher is waiting in select with nothing to receive
Quiescent == sfpc = "done" /\ cpc = "select" /\ events = << >>

\* no call of the apiClient has failed
AllOk == \A i \in 1..Len(calls) : calls[i].ok

LastCall(log) == log[Len(log)]

\* this step issues exactly one call: `op` for the relative path `key`
IssuesOne(op, key) ==
    /\ Len(calls') = Len(calls) + 1
    /\ SubSeq(calls', 1, Len(calls)) = calls
    /\ LastCall(calls').op = op
    /\ LastCall(calls').key = key

\* the number of times the file p was created after startup
Creations(p) == Cardinality({i \in 1..Len(fsLog) : fsLog[i] = FsOp("create", p)})

\* C4: with the engine open and every remote call succeeding, once every
\* delivered event is handled each file created after startup, in the root or
\* in a subdirectory (one created after startup included), has had exactly one
\* upload call for its relative path from the handling of its creation
C4_CreatedFileUploadedOnce ==
    (Quiescent /\ ~closeChan /\ AllOk)
       => \A r \in RelFiles :
             Cardinality(CallsBy(calls, "upload", r, "create")) = Creations(Root \o r)

\* the REMOVE handler of the loop returns in this step
RemoveHandled == cpc = "remove" /\ cpc' # "remove"

RemoveBusy(p) ==
    \/ \E i \in 1..Len(events) : events[i] = Event(p, "Remove")
    \/ cur = Event(p, "Remove") /\ cpc \in {"event", "remove"}

InReupload == {"writeRemove", "writeCreate", "writeSum"}

\* handleFileWrite finds a tracked file whose checksum differs from the stored one
ChangedWrite ==
    /\ cpc = "write" /\ cpc' # "write"
    /\ IsFile(Filename)
    /\ Filename \in DOMAIN files
    /\ files[Filename] # Sha256(disk[Filename])

\* handleFileWrite returns from its re-upload in this step
ReuploadReturns == cpc \in InReupload /\ cpc' \notin InReupload

\* the last two calls are a delete and then an upload of the relative path r
DeleteThenUpload(log, r) ==
    /\ Len(log) >= 2
    /\ log[Len(log) - 1].op = "delete" /\ log[Len(log) - 1].key = r
    /\ log[Len(log)].op = "upload" /\ log[Len(log)].key = r

C7_UnchangedWriteIsNoop ==
    [][(/\ cpc = "write" /\ cpc' # "write"
        /\ IsFile(Filename)
        /\ Filename \in DOMAIN files
        /\ files[Filename] = Sha256(disk[Filename]))
          => /\ cpc' \notin InReupload
             /\ calls' = calls
             /\ siaFiles' = siaFiles
             /\ files' = files]_vars

C7_Witness ==
    /\ cpc = "select"
    /\ \E r \in RelFiles :
          /\ cur = Event(Root \o r, "Write")
          /\ fsLog = <<FsOp("write", Root \o r)>>
          /\ Root \o r \in DOMAIN files
          /\ files[Root \o r] = Sha256(disk[Root \o r])
          /\ \A i \in 1..Len(calls) : calls[i].by = "baseline"

\* the loop handles an event whose path is a directory in this step
DirHandled == cpc = "event" /\ cpc' # "event" /\ StatIsDir(Filename)

\* C8: an event for a path that is a directory issues no remote call and adds
\* no entry to sf.files; with the watcher open it subscribes the directory, a
\* file then created in a subscribed subdirectory is delivered as a create
\* event, and handling that event uploads the file under its relative path,
\* subdirectory included
C8_DirectoryOnlySubscribed ==
    [][/\ DirHandled
             => /\ calls' = calls
                /\ siaFiles' = siaFiles
                /\ files' = files
                /\ cpc' = "select"
                /\ watcher = "open" => watched' = watched \cup {Filename}
       /\ \A r \in RelFiles :
             (/\ Len(r) > 1
              /\ disk[Root \o r] = 0 /\ disk'[Root \o r] # 0
              /\ watcher = "open"
              /\ Root \o SubSeq(r, 1, Len(r) - 1) \in watched)
                => events' = Append(events, Event(Root \o r, "Create"))
       /\ \A r \in RelFiles :
             (/\ Len(r) > 1
              /\ cpc = "create" /\ cpc' # "create"
              /\ cur.name = Root \o r)
                => /\ IssuesOne("upload", r)
                   /\ LastCall(calls').key[1] = Parent(cur.name)[Len(Parent(cur.name))]]_vars

C8_Witness ==
    /\ \E i \in 1..Len(fsLog) : fsLog[i] = FsOp("mkdir", Root \o <<"d">>)
    /\ Root \o <<"d">> \in watched
    /\ CallsBy(calls, "upload", <<"d", "c">>, "create") # {}
    /\ \A i \in 1..Len(calls) : calls[i].key # <<"d">>
    /\ Root \o <<"d">> \notin DOMAIN files

\* C9: once watcher.Close() has run, eventWatcher neither receives from the
\* watcher's channels nor calls watcher.Add
C9_NoUseAfterClose == watcher = "closed" => touched = {}

\* C10: after Close is called eventWatcher reaches its return, although the
\* closed channels of the watcher stay receivable
C10_ConsumerTerminates == closeChan ~> cpc = "done"

C10_Witness == cpc = "done" /\ "Events" \in touched /\ "Add" \in touched

\* eventWatcher receives an event the watcher delivered in this step
ReceivesEvent == cpc = "select" /\ cpc' = "event" /\ cur' # ZeroEvent

\* C11: once Close has been called (closeChan is closed) eventWatcher starts
\* on no new event and begins no upload or delete call, even with events
\* still waiting in the watcher
C11_NothingBegunAfterClose ==
    [][closeChan => (~ReceivesEvent /\ calls' = calls)]_vars

\* C12: a second call of Close does not panic, and does not release the stop
\* signal or the watcher a second time
C12_SecondCloseGuarded ==
    /\ [](closepc # "panicked")
    /\ [][closepc = "returned" => (closeChan' = closeChan /\ watcher' = watcher)]_vars

\* no watcher, no subscription, no remote call, no index entry, no consumer
NothingStarted ==
    /\ watcher = "none"
    /\ watched = {}
    /\ calls = << >>
    /\ files = EmptyMap
    /\ cpc = "off"

\* C13: with zero contracts NewSiafolder never gets past the contracts query,
\* and when the query fails or reports zero contracts NewSiafolder returns the
\* error with no watch subscription, no upload or delete call, no index entry
\* and no consumer, and nothing of that changes afterwards
C13_NoContractsNothingStarted ==
    /\ [](contracts = 0 => (sfpc \in {"contracts", "failed"} /\ NothingStarted))
    /\ [][(sfpc = "contracts" /\ sfpc' = "failed") => NothingStarted']_vars
    /\ [][(sfpc = "failed" /\ NothingStarted) => NothingStarted']_vars

C13_Witness == sfpc = "failed" /\ contracts = 0 /\ NothingStarted

\* C14: when NewSiafolder has returned a startup error no watch subscription
\* is active and the consumer has not been started
C14_FailedStartupWatchesNothing ==
    sfpc = "failed" => (watched = {} /\ cpc = "off")

\* C15: the loop of eventWatcher ends only by the stop signal, received at
\* the select, never by a failure inside a handler; and whatever failed
\* before, the events the watcher holds are all received unless Close is called
C15_FailureKeepsLoopRunning ==
    /\ [][(cpc # "done" /\ cpc' = "done") => (cpc = "select" /\ closeChan)]_vars
    /\ (events # << >>) ~> (closeChan \/ events = << >>)

\* a failed delete of a REMOVE event, and the upload of a later CREATE event
C15_Witness ==
    \E i, j \in 1..Len(calls) :
        /\ i < j
        /\ calls[i].by = "remove" /\ ~calls[i].ok
        /\ calls[j].by = "create"

\* handleFileWrite is entered for an existing file that has no checksum in sf.files
UntrackedWrite ==
    /\ cpc = "write"
    /\ IsFile(Filename)
    /\ Filename \notin DOMAIN files

\* C16: handleFileWrite does not return from a write event of an untracked
\* file without having handled it as a create: one upload call for the
\* relative path, and the path in sf.files with the checksum of its content
C16_UntrackedWriteIsCreate ==
    [][(UntrackedWrite /\ cpc' \notin ({"write"} \cup InReupload))
          => /\ IssuesOne("upload", Rel(Root, Filename))
             /\ Filename \in DOMAIN files'
             /\ files'[Filename] = Checksum(Filename)]_vars

\* C17 as stated: handling a remove event of a path that is not a directory
\* and has no checksum in sf.files issues no call and leaves sf.files as it was
C17_UntrackedRemoveIsNoop ==
    [][(RemoveHandled /\ Filename \notin DOMAIN files)
          => (calls' = calls /\ files' = files)]_vars

\* C17 amended: handling a remove event of a path that is not a directory and
\* has no checksum in sf.files issues exactly one delete call for the
\* relative path, as for a tracked path, and leaves sf.files as it was
\* whether the call succeeds or fails
C17_UntrackedRemoveStillDeletes ==
    [][(RemoveHandled /\ Filename \notin DOMAIN files)
          => (IssuesOne("delete", Rel(Root, Filename)) /\ files' = files)]_vars

\* a file created after startup whose upload failed, so that it has no
\* checksum, then removed: the remove event has issued the delete
C17_Witness ==
    /\ cpc = "select"
    /\ \E r \in RelFiles :
          /\ fsLog = <<FsOp("create", Root \o r), FsOp("remove", Root \o r)>>
          /\ cur = Event(Root \o r, "Remove")
          /\ Len(calls) = 2
          /\ calls[1] = Call("upload", r, "create", FALSE)
          /\ calls[2].op = "delete" /\ calls[2].key = r /\ calls[2].by = "remove"

\* the delete or the upload of handleFileWrite's re-upload fails in this step
ReuploadCallFails ==
    /\ cpc \in {"writeRemove", "writeCreate"}
    /\ Len(calls') = Len(calls) + 1
    /\ ~LastCall(calls').ok

\* C18: handleFileWrite stores the new checksum of a changed file only after
\* its delete and its upload have succeeded: neither the step that detects
\* the change nor a failing delete or upload changes the path's entry in
\* sf.files, which goes on holding the old checksum
C18_DigestStoredAfterBothCalls ==
    [][(ChangedWrite \/ ReuploadCallFails)
          => /\ Filename \in DOMAIN files'
             /\ files'[Filename] = files[Filename]]_vars

\* C19: whenever startup is over, eventWatcher waits at its select and no
\* event is pending, the remote holds every path of sf.files under its
\* relative path with the checksum sf.files stores for it
C19_IndexReconciled ==
    Quiescent
       => \A p \in DOMAIN files :
             /\ Rel(Root, p) \in DOMAIN siaFiles
             /\ siaFiles[Rel(Root, p)] = files[p]

\* the positions of eventWatcher inside the handling of one event
HandlerPcs == {"event", "write", "writeRemove", "writeCreate", "writeSum",
               "remove", "create", "createSum"}

\* C20: eventWatcher is started once, as the last step of NewSiafolder; it
\* takes a new event only at its select, when the handling of the previous
\* one is over, and always the oldest pending one; and once NewSiafolder has
\* returned every change of sf.files is a step of a handler of eventWatcher
C20_OneConsumerInOrder ==
    /\ [][ConsumerStarts => (sfpc = "loop" /\ sfpc' = "done")]_vars
    /\ [][cpc # "off" => cpc' # "off"]_vars
    /\ [][cur' # cur => (cpc = "select" /\ cpc' = "event")]_vars
    /\ [][ReceivesEvent => (cur' = Head(events) /\ events' = Tail(events))]_vars
    /\ [][(sfpc = "done" /\ files' # files)
             => (cpc \in HandlerPcs /\ cpc' # cpc)]_vars

\* two operations on different paths have queued two events; the first is
\* being handled while the second waits
C20_Witness ==
    /\ cpc = "event"
    /\ Len(fsLog) = 2
    /\ fsLog[1].path # fsLog[2].path
    /\ cur.name = fsLog[1].path
    /\ Len(events) = 1
    /\ events[1].name = fsLog[2].path

\* Close has not been called
BeforeClose == sfpc = "done" /\ ~closeChan

\* C21: after startup and before Close, the watcher loses no directory that
\* still exists (it only gains subscriptions), the root is always subscribed,
\* and whenever every delivered event has been handled each directory that
\* exists under the root is subscribed, one made inside a directory made
\* after startup included
C21_WatchedCoversTree ==
    /\ [][(BeforeClose /\ ~closeChan')
             => \A w \in watched : StatIsDir(w)' => w \in watched']_vars
    /\ [](BeforeClose => Root \in watched)
    /\ []((Quiescent /\ ~closeChan)
             => \A d \in DirPaths : disk[d] # 0 => d \in watched)

\* the last call was the successful upload of a CREATE event for `file`,
\* the file still holds the uploaded content, and sf.files and the remote
\* are as that handling leaves them
CreateHandled(file) ==
    /\ IsFile(file)
    /\ calls # << >>
    /\ LastCall(calls) = Call("upload", Rel(Root, file), "create", TRUE)
    /\ Rel(Root, file) \in DOMAIN siaFiles
    /\ siaFiles[Rel(Root, file)] = Checksum(file)
    /\ file \in DOMAIN files
    /\ files[file] = Checksum(file)

\* a step of handleCreate for a CREATE event, its Post succeeding
CreateStepOk ==
    \/ cpc = "create" /\ cpc' = "createSum"
    \/ cpc = "createSum" /\ cpc' = "select"

\* C22: when a CREATE event of a file has been handled with its upload
\* succeeding, handling a CREATE event of the same file again, content
\* unchanged and upload succeeding, leaves sf.files and the remote files as
\* they were, the path still in sf.files
C22_CreateIdempotent ==
    [][(CreateHandled(Filename) /\ CreateStepOk)
          => /\ files' = files
             /\ siaFiles' = siaFiles
             /\ Filename \in DOMAIN files']_vars

\* a file created and then renamed over: both CREATE events handled, two
\* successful uploads, the path tracked with the checksum the remote holds
C22_Witness ==
    /\ cpc = "select"
    /\ \E r \in RelFiles :
          /\ fsLog = <<FsOp("create", Root \o r), FsOp("rename", Root \o r)>>
          /\ cur = Event(Root \o r, "Create")
          /\ calls = <<Call("upload", r, "create", TRUE),
                       Call("upload", r, "create", TRUE)>>
          /\ CreateHandled(Root \o r)

\* the Post of a CREATE or REMOVE event is issued in this step and fails
EventCallFails ==
    /\ cpc \in {"create", "remove"}
    /\ Len(calls') = Len(calls) + 1
    /\ ~LastCall(calls').ok

\* C23: from the receipt of an event up to its handler sf.files is not
\* touched, and when the upload of a CREATE event or the delete of a REMOVE
\* event fails the handler returns with sf.files as it was: no entry added,
\* changed or removed
C23_FailedCallKeepsIndex ==
    /\ [][(cpc \in {"select", "event"}) => (files' = files)]_vars
    /\ [][EventCallFails
             => (files' = files /\ cpc' \in {"select", "create"})]_vars

\* a tracked file removed and created again, the delete and then the upload
\* failing: the path still has its checksum
C23_Witness ==
    /\ cpc = "select"
    /\ Len(calls) >= 2
    /\ \E r \in RelFiles :
          /\ calls[Len(calls) - 1] = Call("delete", r, "remove", FALSE)
          /\ LastCall(calls) = Call("upload", r, "create", FALSE)
          /\ Root \o r \in DOMAIN files

====
